---- MODULE Spec2Model ----
(***************************************************************************)
(* Product registry of src/main.py: crear_producto allocates the next id   *)
(* under an asyncio lock and appends the record to productos.txt (pipe     *)
(* separated rows) and productos.jsonl (one JSON object per line);         *)
(* listar_productos and obtener_producto scan productos.jsonl; the counter *)
(* ultimo_id is recovered from productos.jsonl when the module is loaded.  *)
(*                                                                         *)
(* Text is a sequence of one-character strings.  A line of productos.jsonl *)
(* is held as the value json.loads yields for it, or as the way reading it *)
(* fails (kind).                                                           *)
(***************************************************************************)
EXTENDS Integers, Sequences, FiniteSets, TLC

\* ------------------------------------------------------------------ bounds
\* create calls issued over one behaviour
MaxCalls == 2
\* create calls in flight at the same time
NumTasks == 2
\* process terminations followed by a new start
MaxRestarts == 1
\* edits of productos.jsonl made from outside the service
MaxTamper == 1

\* ------------------------------------------------- field constraints (32-41)
NombreMin == 2
NombreMax == 60
CategoriaMax == 40
DescripcionMax == 200

\* ------------------------------------------------------------------- text
NL == "\n"
CR == "\r"
PIPE == "|"
SP == " "
SLASH == "/"
DOT == "."

DigitChar == <<"0", "1", "2", "3", "4", "5", "6", "7", "8", "9">>

IsDigit(c) == \E d \in 1..10 : DigitChar[d] = c

DigitVal(c) == (CHOOSE d \in 1..10 : DigitChar[d] = c) - 1

\* str(n) of a natural number, as f"{p.id}" and f"{p.stock}" render it
RECURSIVE Digits(_)
Digits(n) ==
    IF n < 10 THEN <<DigitChar[n + 1]>>
    ELSE Digits(n \div 10) \o <<DigitChar[(n % 10) + 1]>>

AllDigits(s) == Len(s) > 0 /\ \A i \in 1..Len(s) : IsDigit(s[i])

\* int(s) of a string of decimal digits
RECURSIVE ParseNat(_)
ParseNat(s) ==
    IF Len(s) = 0 THEN 0
    ELSE ParseNat(SubSeq(s, 1, Len(s) - 1)) * 10 + DigitVal(s[Len(s)])

\* first position of character c in s, 0 when absent
IndexOf(s, c) ==
    IF \E i \in 1..Len(s) : s[i] = c
    THEN CHOOSE i \in 1..Len(s) : s[i] = c /\ \A j \in 1..(i - 1) : s[j] # c
    ELSE 0

\* str.replace(a, b) for one-character a and b
Replace(s, a, b) == [i \in 1..Len(s) |-> IF s[i] = a THEN b ELSE s[i]]

IsSpace(c) == c \in {SP, NL, CR}

\* constr(strip_whitespace=True): leading and trailing whitespace removed
RECURSIVE Strip(_)
Strip(s) ==
    IF Len(s) = 0 THEN s
    ELSE IF IsSpace(s[1]) THEN Strip(Tail(s))
    ELSE IF IsSpace(s[Len(s)]) THEN Strip(SubSeq(s, 1, Len(s) - 1))
    ELSE s

\* Optional[str]
None == [some |-> FALSE, v |-> <<>>]
Some(s) == [some |-> TRUE, v |-> s]

\* a price is held in tenths: 15 is the float 1.5; f"{p.precio}" gives "1.5"
FloatStr(p) == Digits(p \div 10) \o <<DOT>> \o Digits(p % 10)

\* IsoFormat losing the microseconds
IsoFormatSeconds(ts) == <<"T">> \o Digits(ts.sec)

\* datetime.isoformat(): the fractional part is left out when it is zero
IsoFormat(ts) ==
    <<"T">> \o Digits(ts.sec)
        \o (IF ts.usec = 0 THEN <<>> ELSE <<DOT>> \o Digits(ts.usec))

\* datetime.fromisoformat(s): ok is FALSE where it raises ValueError
FromIso(s) ==
    LET body == Tail(s)
        dot == IndexOf(body, DOT)
        whole == IF dot = 0 THEN body ELSE SubSeq(body, 1, dot - 1)
        frac == IF dot = 0 THEN <<>> ELSE SubSeq(body, dot + 1, Len(body))
    IN  IF Len(s) = 0 \/ s[1] # "T" \/ ~AllDigits(whole)
           \/ (dot # 0 /\ ~AllDigits(frac))
        THEN [ok |-> FALSE, ts |-> [sec |-> 0, usec |-> 0]]
        ELSE [ok |-> TRUE,
              ts |-> [sec |-> ParseNat(whole), usec |-> ParseNat(frac)]]

\* line 61 of productos.txt
Header ==
    <<
       "i", "d", "|", "n", "o", "m", "b", "r", "e", "|", "c", "a", "t", "e",
       "g", "o", "r", "i", "a", "|", "p", "r", "e", "c", "i", "o", "|", "s",
       "t", "o", "c", "k", "|", "c", "r", "e", "a", "d", "o", "_", "e", "n",
       "|", "d", "e", "s", "c", "r", "i", "p", "c", "i", "o", "n",
       NL>>

\* --------------------------------------------------------------- records
\* ProductoIn (32-41) after validation: nombre and categoria are stripped
Inputs ==
    { [nombre |-> <<"a", "b">>, categoria |-> None, precio |-> 15,
       stock |-> 0, descripcion |-> Some(<<"x", CR, "y">>)],
      [nombre |-> <<"a", PIPE, "b">>, categoria |-> Some(<<"c">>),
       precio |-> 20, stock |-> 12, descripcion |-> Some(<<NL, "x">>)] }

\* values datetime.utcnow() may give
Times == { [sec |-> 7, usec |-> 0], [sec |-> 7, usec |-> 15] }

\* ProductoOut(id=..., creado_en=..., **data.model_dump()) (211-215)
ProductoOut(id, creado_en, d) ==
    [id |-> id,
     nombre |-> Strip(d.nombre),
     categoria |-> IF d.categoria.some THEN Some(Strip(d.categoria.v))
                   ELSE None,
     precio |-> d.precio,
     stock |-> d.stock,
     descripcion |-> d.descripcion,
     creado_en |-> creado_en]

NoProducto ==
    [id |-> 0, nombre |-> <<>>, categoria |-> None, precio |-> 0,
     stock |-> 0, descripcion |-> None, creado_en |-> [sec |-> 0, usec |-> 0]]

\* the caller-supplied fields of a ProductoOut
InputOf(p) ==
    [nombre |-> p.nombre, categoria |-> p.categoria, precio |-> p.precio,
     stock |-> p.stock, descripcion |-> p.descripcion]

\* ------------------------------------------------------------ productos.txt
\* esc of _to_text_line (96-99)
esc(s) ==
    IF ~s.some THEN <<>>
    ELSE Replace(Replace(s.v, NL, SP), PIPE, SLASH)

\* _to_text_line (91-101)
_to_text_line(p) ==
    Digits(p.id) \o <<PIPE>> \o esc(Some(p.nombre)) \o <<PIPE>>
        \o esc(p.categoria) \o <<PIPE>> \o FloatStr(p.precio) \o <<PIPE>>
        \o Digits(p.stock) \o <<PIPE>> \o IsoFormat(p.creado_en) \o <<PIPE>>
        \o esc(p.descripcion) \o <<NL>>

\* where the lines of a text end, as Python's text mode reads it (for line
\* in f, 72, 140, 164): at "\n", at "\r\n" and at a "\r" alone
LineEnds(text) ==
    {i \in 1..Len(text) :
        \/ text[i] = NL
        \/ text[i] = CR /\ (i = Len(text) \/ text[i + 1] # NL)}

\* the lines of a text without their line ends; what follows the last line
\* end is a line too
ReadLines(text) ==
    LET ends == LineEnds(text)
        k == Cardinality(ends)
        EndAt(j) ==
            CHOOSE e \in ends : Cardinality({f \in ends : f < e}) = j - 1
        Start(j) == IF j = 1 THEN 1 ELSE EndAt(j - 1) + 1
        Stop(j) ==
            IF EndAt(j) > Start(j) /\ text[EndAt(j)] = NL
               /\ text[EndAt(j) - 1] = CR
            THEN EndAt(j) - 2 ELSE EndAt(j) - 1
        last == IF k = 0 THEN 0 ELSE EndAt(k)
    IN  [j \in 1..k |-> SubSeq(text, Start(j), Stop(j))]
            \o (IF last < Len(text)
                THEN <<SubSeq(text, last + 1, Len(text))>> ELSE <<>>)

\* ---------------------------------------------------------- productos.jsonl
\* JSON values of the fields of a decoded line
JInt(n) == [t |-> "int", n |-> n, s |-> <<>>]
JFloat(n) == [t |-> "float", n |-> n, s |-> <<>>]
JStr(s) == [t |-> "str", n |-> 0, s |-> s]
JNull == [t |-> "null", n |-> 0, s |-> <<>>]
JAbsent == [t |-> "absent", n |-> 0, s |-> <<>>]

JOpt(o) == IF o.some THEN JStr(o.v) ELSE JNull

\* a line that json.loads decodes to an object with these members
JObject(id, nombre, categoria, precio, stock, descripcion, creado_en) ==
    [kind |-> "obj", id |-> id, nombre |-> nombre, categoria |-> categoria,
     precio |-> precio, stock |-> stock, descripcion |-> descripcion,
     creado_en |-> creado_en]

\* a line that is no JSON object; kind says how reading it fails:
\*   "blank"    empty after strip()
\*   "garbage"  json.loads raises JSONDecodeError
\*   "nonobj"   json.loads gives a list or a number (no .get)
\*   "badutf8"  bytes that are not UTF-8: iterating the file raises
NonObject(kind) ==
    [kind |-> kind, id |-> JAbsent, nombre |-> JAbsent,
     categoria |-> JAbsent, precio |-> JAbsent, stock |-> JAbsent,
     descripcion |-> JAbsent, creado_en |-> JAbsent]

\* p.model_dump(mode="json") then json.dumps (114-128)
Dump(p) ==
    JObject(JInt(p.id), JStr(p.nombre), JOpt(p.categoria), JFloat(p.precio),
            JInt(p.stock), JOpt(p.descripcion), JStr(IsoFormat(p.creado_en)))

\* int(v) of a member fetched with d.get(key, default); ok is FALSE where it
\* raises (TypeError for null, ValueError for a non-numeric string)
IntOf(v, default) ==
    CASE v.t = "absent" -> [ok |-> TRUE, n |-> default]
      [] v.t = "int" -> [ok |-> TRUE, n |-> v.n]
      [] v.t = "float" -> [ok |-> TRUE, n |-> v.n \div 10]
      [] v.t = "str" ->
            IF AllDigits(Strip(v.s))
            THEN [ok |-> TRUE, n |-> ParseNat(Strip(v.s))]
            ELSE [ok |-> FALSE, n |-> 0]
      [] OTHER -> [ok |-> FALSE, n |-> 0]

\* the file is decoded as UTF-8 while it is iterated (71-72, 139-140,
\* 163-164), outside every try: a log of less than one read buffer with a
\* badly encoded line raises before its first line is delivered
DecodeFails(lines) == \E i \in 1..Len(lines) : lines[i].kind = "badutf8"

\* the loop body of _cargar_ultimo_id (73-81) on one line, last_id so far
RecoverLine(l, last_id) ==
    CASE l.kind = "blank" -> [ok |-> TRUE, n |-> last_id]
      [] l.kind = "garbage" -> [ok |-> TRUE, n |-> last_id]
      [] l.kind = "obj" ->
            LET i == IntOf(l.id, 0)
            IN  [ok |-> i.ok,
                 n |-> IF i.ok /\ i.n > last_id THEN i.n ELSE last_id]
      [] OTHER -> [ok |-> FALSE, n |-> last_id]

\* RecoverScan that stops after the first line
RecoverFirst(lines, last_id) ==
    IF Len(lines) = 0 THEN [err |-> FALSE, val |-> last_id]
    ELSE [err |-> ~RecoverLine(Head(lines), last_id).ok,
          val |-> RecoverLine(Head(lines), last_id).n]

\* the loop of _cargar_ultimo_id (72-81)
RECURSIVE RecoverScan(_, _)
RecoverScan(lines, last_id) ==
    IF Len(lines) = 0 THEN [err |-> FALSE, val |-> last_id]
    ELSE LET r == RecoverLine(Head(lines), last_id)
         IN  IF r.ok THEN RecoverScan(Tail(lines), r.n)
             ELSE [err |-> TRUE, val |-> 0]

\* _cargar_ultimo_id never looking into the file
CargarCero(exists, lines) == [err |-> FALSE, val |-> 0]

\* _cargar_ultimo_id (63-82): err when an exception leaves the function
_cargar_ultimo_id(exists, lines) ==
    IF ~exists THEN [err |-> FALSE, val |-> 0]
    ELSE IF DecodeFails(lines) THEN [err |-> TRUE, val |-> 0]
    ELSE RecoverScan(lines, 0)

\* creado_en as ProductoOut receives it: a string goes through
\* datetime.fromisoformat (147-148, 171-172), a number is a timestamp
CreadoEnOf(v) ==
    CASE v.t = "str" -> FromIso(v.s)
      [] v.t = "int" -> [ok |-> v.n >= 0, ts |-> [sec |-> v.n, usec |-> 0]]
      [] OTHER -> [ok |-> FALSE, ts |-> [sec |-> 0, usec |-> 0]]

\* a numeric string as pydantic reads it for an int field: surrounding
\* whitespace and a fraction of zeros only ("1.0") are dropped
CleanIntStr(s) ==
    LET t == Strip(s)
        dot == IndexOf(t, DOT)
        frac == IF dot = 0 THEN <<>> ELSE SubSeq(t, dot + 1, Len(t))
    IN  IF dot # 0 /\ Len(frac) > 0 /\ \A i \in 1..Len(frac) : frac[i] = "0"
        THEN SubSeq(t, 1, dot - 1)
        ELSE t

\* id: int (47)
IdField(v) ==
    CASE v.t = "int" -> [ok |-> TRUE, n |-> v.n]
      [] v.t = "float" -> [ok |-> v.n % 10 = 0, n |-> v.n \div 10]
      [] v.t = "str" ->
            IF AllDigits(CleanIntStr(v.s))
            THEN [ok |-> TRUE, n |-> ParseNat(CleanIntStr(v.s))]
            ELSE [ok |-> FALSE, n |-> 0]
      [] OTHER -> [ok |-> FALSE, n |-> 0]

\* nombre: constr(strip_whitespace=True, min_length=2, max_length=60)
NombreField(v) ==
    IF v.t = "str"
    THEN [ok |-> Len(Strip(v.s)) >= NombreMin /\ Len(Strip(v.s)) <= NombreMax,
          s |-> Strip(v.s)]
    ELSE [ok |-> FALSE, s |-> <<>>]

\* Optional[constr(...)] = None; strip is TRUE for categoria
OptField(v, strip, maxLen) ==
    CASE v.t \in {"absent", "null"} -> [ok |-> TRUE, o |-> None]
      [] v.t = "str" ->
            LET s == IF strip THEN Strip(v.s) ELSE v.s
            IN  [ok |-> Len(s) <= maxLen, o |-> Some(s)]
      [] OTHER -> [ok |-> FALSE, o |-> None]

\* precio: PositiveFloat
PrecioField(v) ==
    CASE v.t = "float" -> [ok |-> v.n > 0, n |-> v.n]
      [] v.t = "int" -> [ok |-> v.n > 0, n |-> v.n * 10]
      [] OTHER -> [ok |-> FALSE, n |-> 0]

\* stock: conint(ge=0) = 0
StockField(v) ==
    CASE v.t = "absent" -> [ok |-> TRUE, n |-> 0]
      [] v.t = "int" -> [ok |-> v.n >= 0, n |-> v.n]
      [] OTHER -> [ok |-> FALSE, n |-> 0]

\* the try block of _leer_todos on one line (144-152): ok is FALSE where an
\* exception is caught and the line is skipped
ParseLine(l) ==
    IF l.kind # "obj" THEN [ok |-> FALSE, rec |-> NoProducto]
    ELSE LET id == IdField(l.id)
             nombre == NombreField(l.nombre)
             categoria == OptField(l.categoria, TRUE, CategoriaMax)
             precio == PrecioField(l.precio)
             stock == StockField(l.stock)
             descripcion == OptField(l.descripcion, FALSE, DescripcionMax)
             creado_en == CreadoEnOf(l.creado_en)
         IN  IF id.ok /\ nombre.ok /\ categoria.ok /\ precio.ok /\ stock.ok
                /\ descripcion.ok /\ creado_en.ok
             THEN [ok |-> TRUE,
                   rec |-> [id |-> id.n, nombre |-> nombre.s,
                            categoria |-> categoria.o, precio |-> precio.n,
                            stock |-> stock.n, descripcion |-> descripcion.o,
                            creado_en |-> creado_en.ts]]
             ELSE [ok |-> FALSE, rec |-> NoProducto]

\* the records of the lines that parse, in file order
RECURSIVE ScanAll(_)
ScanAll(lines) ==
    IF Len(lines) = 0 THEN <<>>
    ELSE LET r == ParseLine(Head(lines))
         IN  (IF r.ok THEN <<r.rec>> ELSE <<>>) \o ScanAll(Tail(lines))

\* _leer_todos (130-153)
_leer_todos(exists, lines) ==
    IF ~exists THEN [err |-> FALSE, recs |-> <<>>]
    ELSE IF DecodeFails(lines) THEN [err |-> TRUE, recs |-> <<>>]
    ELSE [err |-> FALSE, recs |-> ScanAll(lines)]

\* IdMatches without the comparison
IdMatchesAny(l, producto_id) == l.kind = "obj"

\* the id test of _leer_por_id (170): int(d.get("id", -1)) == producto_id
IdMatches(l, producto_id) ==
    /\ l.kind = "obj"
    /\ IntOf(l.id, -1).ok
    /\ IntOf(l.id, -1).n = producto_id

\* the first line that matches and builds a ProductoOut (164-175)
RECURSIVE ScanById(_, _)
ScanById(lines, producto_id) ==
    IF Len(lines) = 0 THEN <<>>
    ELSE IF IdMatches(Head(lines), producto_id) /\ ParseLine(Head(lines)).ok
         THEN <<ParseLine(Head(lines)).rec>>
         ELSE ScanById(Tail(lines), producto_id)

\* _leer_por_id (155-176): recs is empty for None
_leer_por_id(exists, lines, producto_id) ==
    IF ~exists THEN [err |-> FALSE, recs |-> <<>>]
    ELSE IF DecodeFails(lines) THEN [err |-> TRUE, recs |-> <<>>]
    ELSE [err |-> FALSE, recs |-> ScanById(lines, producto_id)]

\* ------------------------------------------------------------------ state
VARIABLES
    txt,          \* productos.txt, its characters
    jsonlExists,  \* os.path.exists(JSONL_FILE)
    jsonl,        \* productos.jsonl, its lines
    ultimo_id,    \* the module's counter (85)
    lock,         \* the asyncio.Lock (86): 0 when free, else the holder
    up,           \* the module loaded and the service is running
    pc,           \* where each create call stands
    data,         \* the ProductoIn of each create call
    producto,     \* the ProductoOut each create call built
    resp,         \* what the last listar_productos / obtener_producto gave
    calls,        \* create calls issued so far
    restarts,     \* process starts after the first
    tampers,      \* outside edits of productos.jsonl so far
    seed,         \* ultimo_id as the running process loaded it
    returned,     \* what create calls returned, in order of return
    lost,         \* ids allocated whose record never reached productos.jsonl,
                  \* each with the process start it was allocated in
    orphaned,     \* ids appended by a call the process died before returning
    everPersisted,\* ids of all records create appended to productos.jsonl
    shadow,       \* per line of productos.jsonl: the record create wrote there
    txtAppends,   \* rows create appended to productos.txt
    second        \* a second instance of the service on the same files: its
                  \* own ultimo_id and the create call it serves

vars ==
    <<txt, jsonlExists, jsonl, ultimo_id, lock, up, pc, data, producto, resp,
      calls, restarts, tampers, seed, returned, lost, orphaned,
      everPersisted, shadow, txtAppends, second>>

Tasks == 1..NumTasks

NoData ==
    [nombre |-> <<>>, categoria |-> None, precio |-> 0, stock |-> 0,
     descripcion |-> None]

\* the second instance before it is started
NoSecond ==
    [pc |-> "down", ultimo_id |-> 0, seed |-> 0, data |-> NoData,
     producto |-> NoProducto]

NoResp ==
    [op |-> "none", id |-> 0, part |-> "none", err |-> FALSE, recs |-> <<>>]

\* module load (53-86) on a data directory without productos.txt, and with
\* productos.jsonl absent or empty
Init ==
    /\ txt = Header
    /\ jsonlExists \in BOOLEAN
    /\ jsonl = <<>>
    /\ ultimo_id = _cargar_ultimo_id(jsonlExists, <<>>).val
    /\ lock = 0
    /\ up = TRUE
    /\ pc = [t \in Tasks |-> "idle"]
    /\ data = [t \in Tasks |-> NoData]
    /\ producto = [t \in Tasks |-> NoProducto]
    /\ resp = NoResp
    /\ calls = 0
    /\ restarts = 0
    /\ tampers = 0
    /\ seed = 0
    /\ returned = <<>>
    /\ lost = {}
    /\ orphaned = {}
    /\ everPersisted = {}
    /\ shadow = <<>>
    /\ txtAppends = 0
    /\ second = NoSecond

files == <<txt, txtAppends, jsonlExists, jsonl, shadow, everPersisted>>
env == <<restarts, tampers, seed, second>>

\* POST /productos arrives: crear_producto(data) starts (200-201); the call
\* takes the first free slot
Call(t, x) ==
    /\ up
    /\ pc[t] = "idle"
    /\ \A u \in Tasks : u < t => pc[u] # "idle"
    /\ calls < MaxCalls
    /\ calls' = calls + 1
    /\ pc' = [pc EXCEPT ![t] = "acquire"]
    /\ data' = [data EXCEPT ![t] = x]
    /\ UNCHANGED <<files, env, ultimo_id, lock, up, producto, returned, lost,
                   orphaned>>
    /\ resp' = NoResp

\* LockFree of a lock that never blocks
LockAlwaysFree == TRUE

\* whether the lock lets a caller in
LockFree == lock = 0

\* Acquire that enters without waiting for the lock
AcquireUnlocked(t) ==
    /\ pc[t] = "acquire"
    /\ lock' = t
    /\ pc' = [pc EXCEPT ![t] = "increment"]
    /\ UNCHANGED <<files, env, ultimo_id, up, data, producto, calls, returned,
                   lost, orphaned>>
    /\ resp' = NoResp

\* async with lock: (209)
Acquire(t) ==
    /\ pc[t] = "acquire"
    /\ LockFree
    /\ lock' = t
    /\ pc' = [pc EXCEPT ![t] = "increment"]
    /\ UNCHANGED <<files, env, ultimo_id, up, data, producto, calls, returned,
                   lost, orphaned>>
    /\ resp' = NoResp

\* Increment that leaves the module's counter as it was
IncrementLocal(t) ==
    /\ pc[t] = "increment"
    /\ pc' = [pc EXCEPT ![t] = "build"]
    /\ resp' = NoResp
    /\ UNCHANGED <<files, env, ultimo_id, lock, up, data, producto, calls,
                   returned, lost, orphaned>>

\* ultimo_id += 1 (210)
Increment(t) ==
    /\ pc[t] = "increment"
    /\ ultimo_id' = ultimo_id + 1
    /\ pc' = [pc EXCEPT ![t] = "build"]
    /\ UNCHANGED <<files, env, lock, up, data, producto, calls, returned,
                   lost, orphaned>>
    /\ resp' = NoResp

\* producto = ProductoOut(id=ultimo_id, creado_en=utcnow(), ...) (211-215)
Build(t, now) ==
    /\ pc[t] = "build"
    /\ producto' = [producto EXCEPT ![t] = ProductoOut(ultimo_id, now, data[t])]
    /\ pc' = [pc EXCEPT ![t] = "txt"]
    /\ UNCHANGED <<files, env, ultimo_id, lock, up, data, calls,
                   returned, lost, orphaned>>
    /\ resp' = NoResp

\* GuardarTxt that writes no row
GuardarTxtSkip(t) ==
    /\ pc[t] = "txt"
    /\ pc' = [pc EXCEPT ![t] = "jsonl"]
    /\ UNCHANGED <<files, env, ultimo_id, lock, up, data, producto, calls,
                   returned, lost, orphaned>>
    /\ resp' = NoResp

\* _guardar_producto, 1) (110-112)
GuardarTxt(t) ==
    /\ pc[t] = "txt"
    /\ txt' = txt \o _to_text_line(producto[t])
    /\ txtAppends' = txtAppends + 1
    /\ pc' = [pc EXCEPT ![t] = "jsonl"]
    /\ UNCHANGED <<jsonlExists, jsonl, shadow, everPersisted, env, ultimo_id,
                   lock, up, data, producto, calls, returned, lost,
                   orphaned>>
    /\ resp' = NoResp

\* GuardarJsonl that puts the line at the head of the file
GuardarJsonlPrepend(t) ==
    /\ pc[t] = "jsonl"
    /\ jsonl' = <<Dump(producto[t])>> \o jsonl
    /\ jsonlExists' = TRUE
    /\ shadow' = <<[ok |-> TRUE, by |-> 1, rec |-> producto[t]]>> \o shadow
    /\ everPersisted' = everPersisted \cup {producto[t].id}
    /\ pc' = [pc EXCEPT ![t] = "return"]
    /\ UNCHANGED <<txt, txtAppends, env, ultimo_id, lock, up, data, producto,
                   calls, returned, lost, orphaned>>
    /\ resp' = NoResp

\* _guardar_producto, 2) and 3) (114-128)
GuardarJsonl(t) ==
    /\ pc[t] = "jsonl"
    /\ jsonl' = Append(jsonl, Dump(producto[t]))
    /\ jsonlExists' = TRUE
    /\ shadow' = Append(shadow, [ok |-> TRUE, by |-> 1, rec |-> producto[t]])
    /\ everPersisted' = everPersisted \cup {producto[t].id}
    /\ pc' = [pc EXCEPT ![t] = "return"]
    /\ UNCHANGED <<txt, txtAppends, env, ultimo_id, lock, up, data, producto,
                   calls, returned, lost, orphaned>>
    /\ resp' = NoResp

\* the lock as the end of the async with block leaves it
Released(t) == IF lock = t THEN 0 ELSE lock

\* return producto (217), leaving the async with block
Return(t) ==
    /\ pc[t] = "return"
    /\ lock' = Released(t)
    /\ returned' = Append(returned,
                          [x |-> data[t], rec |-> producto[t],
                           epoch |-> restarts])
    /\ pc' = [pc EXCEPT ![t] = "idle"]
    /\ data' = [data EXCEPT ![t] = NoData]
    /\ producto' = [producto EXCEPT ![t] = NoProducto]
    /\ UNCHANGED <<files, env, ultimo_id, up, calls, lost, orphaned>>
    /\ resp' = NoResp

\* WriteError that gives the id back to the counter
WriteErrorRollback(t) ==
    /\ pc[t] \in {"txt", "jsonl"}
    /\ ultimo_id' = ultimo_id - 1
    /\ lock' = Released(t)
    /\ lost' = lost \cup {[id |-> producto[t].id, epoch |-> restarts]}
    /\ pc' = [pc EXCEPT ![t] = "idle"]
    /\ data' = [data EXCEPT ![t] = NoData]
    /\ producto' = [producto EXCEPT ![t] = NoProducto]
    /\ UNCHANGED <<files, env, up, calls, returned, orphaned>>
    /\ resp' = NoResp

\* WriteError that leaves the lock with the failed call
WriteErrorHolding(t) ==
    /\ pc[t] \in {"txt", "jsonl"}
    /\ lost' = lost \cup {[id |-> producto[t].id, epoch |-> restarts]}
    /\ pc' = [pc EXCEPT ![t] = "idle"]
    /\ data' = [data EXCEPT ![t] = NoData]
    /\ producto' = [producto EXCEPT ![t] = NoProducto]
    /\ UNCHANGED <<files, env, ultimo_id, lock, up, calls, returned,
                   orphaned>>
    /\ resp' = NoResp

\* open() or write() of either file raises OSError (111-112, 127-128):
\* nothing is appended, the exception leaves the async with block and
\* crear_producto
WriteError(t) ==
    /\ pc[t] \in {"txt", "jsonl"}
    /\ lock' = Released(t)
    /\ lost' = lost \cup {[id |-> producto[t].id, epoch |-> restarts]}
    /\ pc' = [pc EXCEPT ![t] = "idle"]
    /\ data' = [data EXCEPT ![t] = NoData]
    /\ producto' = [producto EXCEPT ![t] = NoProducto]
    /\ UNCHANGED <<files, env, ultimo_id, up, calls, returned, orphaned>>
    /\ resp' = NoResp

\* the id a create call in flight has taken from the counter, 0 for none
HeldId(t) ==
    CASE pc[t] = "build" -> ultimo_id
      [] pc[t] \in {"txt", "jsonl", "return"} -> producto[t].id
      [] OTHER -> 0

\* the process ends at any point (a crash or a stop) and the module is
\* loaded again (53-86): calls in flight are gone, the lock is new, the
\* counter is read back from productos.jsonl; an exception in
\* _cargar_ultimo_id ends the start
Restart ==
    /\ restarts < MaxRestarts
    /\ restarts' = restarts + 1
    /\ LET r == _cargar_ultimo_id(jsonlExists, jsonl)
       IN  /\ up' = ~r.err
           /\ ultimo_id' = r.val
           /\ seed' = r.val
    /\ lock' = 0
    /\ pc' = [t \in Tasks |-> "idle"]
    /\ data' = [t \in Tasks |-> NoData]
    /\ producto' = [t \in Tasks |-> NoProducto]
    /\ lost' = lost \cup {[id |-> HeldId(t), epoch |-> restarts] :
                              t \in {u \in Tasks :
                                         pc[u] \in {"build", "txt", "jsonl"}}}
    /\ orphaned' = orphaned \cup {HeldId(t) : t \in {u \in Tasks :
                                      pc[u] = "return"}}
    /\ resp' = NoResp
    /\ UNCHANGED <<files, tampers, second, calls, returned>>

\* GET /productos: listar_productos (219-224)
Listar ==
    /\ up
    /\ LET r == _leer_todos(jsonlExists, jsonl)
       IN  resp' = [op |-> "list", id |-> 0, part |-> "none", err |-> r.err,
                    recs |-> r.recs]
    /\ UNCHANGED <<files, env, ultimo_id, lock, up, pc, data, producto, calls,
                   returned, lost, orphaned>>

\* ids asked for
ProbeIds == 1..MaxCalls

\* GET /productos/{producto_id}: obtener_producto (226-235); empty recs
\* stands for the 404
Obtener(producto_id) ==
    /\ up
    /\ LET r == _leer_por_id(jsonlExists, jsonl, producto_id)
       IN  resp' = [op |-> "get", id |-> producto_id, part |-> "none",
                    err |-> r.err, recs |-> r.recs]
    /\ UNCHANGED <<files, env, ultimo_id, lock, up, pc, data, producto, calls,
                   returned, lost, orphaned>>

Next ==
    \/ \E t \in Tasks, x \in Inputs : Call(t, x)
    \/ \E t \in Tasks : Acquire(t)
    \/ \E t \in Tasks : Increment(t)
    \/ \E t \in Tasks, now \in Times : Build(t, now)
    \/ \E t \in Tasks : GuardarTxt(t)
    \/ \E t \in Tasks : GuardarJsonl(t)
    \/ \E t \in Tasks : Return(t)
    \/ \E t \in Tasks : WriteError(t)
    \/ Restart
    \/ Listar
    \/ \E i \in ProbeIds : Obtener(i)

\* the service with its storage failures, crashes and restarts
Spec == Init /\ [][Next]_vars

\* a step of create call t inside the async with block (210-217)
Step(t) ==
    \/ Increment(t)
    \/ \E now \in Times : Build(t, now)
    \/ GuardarTxt(t)
    \/ GuardarJsonl(t)
    \/ Return(t)
    \/ WriteError(t)

\* the service as the event loop schedules it: the block of crear_producto
\* has no await, so a call that entered it runs to its end, and
\* asyncio.Lock wakes its waiters in the order they came, so a waiting call
\* is not passed over for ever
SpecFair ==
    /\ Spec
    /\ \A t \in Tasks : WF_vars(Step(t)) /\ SF_vars(Acquire(t))

\* ---------------------------------------------------- edits from outside
\* ways a line of productos.jsonl is found damaged
Hows == {"garbage", "nonobj", "badutf8", "noid", "badid", "nonombre",
         "badfecha"}

Damage(l, how) ==
    CASE how = "noid" -> [l EXCEPT !.id = JAbsent]
      [] how = "badid" -> [l EXCEPT !.id = JStr(<<"x">>)]
      [] how = "nonombre" -> [l EXCEPT !.nombre = JAbsent]
      [] how = "badfecha" -> [l EXCEPT !.creado_en = JStr(<<"x">>)]
      [] how = "decid" -> [l EXCEPT !.id = JStr(<<"1", DOT, "0">>)]
      [] how = "valid" -> l
      [] OTHER -> NonObject(how)

\* a line written by something else than this service
Foreign ==
    JObject(JInt(1), JStr(<<"z", "z">>), JNull, JFloat(10), JInt(0), JNull,
            JStr(<<"T", "1">>))

NoRecord == [ok |-> FALSE, by |-> 0, rec |-> NoProducto]

InsertAt(s, i, e) == SubSeq(s, 1, i) \o <<e>> \o SubSeq(s, i + 1, Len(s))

\* line i of productos.jsonl is damaged in place
Overwrite(i, how) ==
    /\ tampers < MaxTamper
    /\ i \in 1..Len(jsonl)
    /\ tampers' = tampers + 1
    /\ jsonl' = [jsonl EXCEPT ![i] = Damage(jsonl[i], how)]
    /\ shadow' = [shadow EXCEPT ![i] = NoRecord]
    /\ resp' = NoResp
    /\ UNCHANGED <<txt, txtAppends, jsonlExists, everPersisted, restarts, seed,
                   second, ultimo_id, lock, up, pc, data, producto, calls, returned,
                   lost, orphaned>>

\* a malformed line is put into productos.jsonl after line i
Insert(i, how) ==
    /\ tampers < MaxTamper
    /\ i \in 0..Len(jsonl)
    /\ tampers' = tampers + 1
    /\ jsonl' = InsertAt(jsonl, i, Damage(Foreign, how))
    /\ jsonlExists' = TRUE
    /\ shadow' = InsertAt(shadow, i, NoRecord)
    /\ resp' = NoResp
    /\ UNCHANGED <<txt, txtAppends, everPersisted, restarts, seed, second,
                   ultimo_id,
                   lock, up, pc, data, producto, calls, returned, lost,
                   orphaned>>

Tamper ==
    \/ \E i \in 1..MaxCalls, how \in Hows : Overwrite(i, how)
    \/ \E i \in 0..MaxCalls, how \in Hows : Insert(i, how)

\* the service, with productos.jsonl also edited from outside
SpecTamper == Init /\ [][Next \/ Tamper]_vars

\* well-formed lines from elsewhere: a record with id 1, which may repeat
\* an id of the file, and the same with its id written "1.0"
Foreigns == \E i \in 0..MaxCalls, how \in {"valid", "decid"} : Insert(i, how)

\* the service on a productos.jsonl of any content
SpecLog == Init /\ [][Next \/ Tamper \/ Foreigns]_vars


\* ------------------------------------------- a second instance (53-86)
\* what the first instance holds in memory, and the history kept of it
first ==
    <<ultimo_id, lock, up, pc, data, producto, returned, lost, orphaned,
      restarts, tampers, seed>>

\* the module is loaded in a second process on the same data directory
\* (53-86): it reads its own ultimo_id from productos.jsonl
Start2 ==
    /\ second.pc = "down"
    /\ ~_cargar_ultimo_id(jsonlExists, jsonl).err
    /\ second' = [second EXCEPT
                      !.pc = "idle",
                      !.ultimo_id = _cargar_ultimo_id(jsonlExists, jsonl).val,
                      !.seed = _cargar_ultimo_id(jsonlExists, jsonl).val]
    /\ resp' = NoResp
    /\ UNCHANGED <<files, first, calls>>

\* POST /productos at the second instance: crear_producto enters its block
\* (200-209); the lock of this instance is its own and, with one call at a
\* time, free
Call2(x) ==
    /\ second.pc = "idle"
    /\ calls < MaxCalls
    /\ calls' = calls + 1
    /\ second' = [second EXCEPT !.pc = "increment", !.data = x]
    /\ resp' = NoResp
    /\ UNCHANGED <<files, first>>

\* Increment2 on a counter that the two instances share
Increment2Shared ==
    /\ second.pc = "increment"
    /\ ultimo_id' = ultimo_id + 1
    /\ second' = [second EXCEPT !.pc = "build", !.ultimo_id = ultimo_id + 1]
    /\ resp' = NoResp
    /\ UNCHANGED <<files, lock, up, pc, data, producto, returned, lost,
                   orphaned, restarts, tampers, seed, calls>>

\* ultimo_id += 1 (210) on the second instance's counter
Increment2 ==
    /\ second.pc = "increment"
    /\ second' = [second EXCEPT !.pc = "build",
                                !.ultimo_id = second.ultimo_id + 1]
    /\ resp' = NoResp
    /\ UNCHANGED <<files, first, calls>>

\* (211-215)
Build2(now) ==
    /\ second.pc = "build"
    /\ second' = [second EXCEPT
                      !.pc = "txt",
                      !.producto = ProductoOut(second.ultimo_id, now,
                                               second.data)]
    /\ resp' = NoResp
    /\ UNCHANGED <<files, first, calls>>

\* (110-112)
GuardarTxt2 ==
    /\ second.pc = "txt"
    /\ txt' = txt \o _to_text_line(second.producto)
    /\ txtAppends' = txtAppends + 1
    /\ second' = [second EXCEPT !.pc = "jsonl"]
    /\ resp' = NoResp
    /\ UNCHANGED <<jsonlExists, jsonl, shadow, everPersisted, first, calls>>

\* (114-128)
GuardarJsonl2 ==
    /\ second.pc = "jsonl"
    /\ jsonl' = Append(jsonl, Dump(second.producto))
    /\ jsonlExists' = TRUE
    /\ shadow' = Append(shadow,
                        [ok |-> TRUE, by |-> 2, rec |-> second.producto])
    /\ everPersisted' = everPersisted \cup {second.producto.id}
    /\ second' = [second EXCEPT !.pc = "return"]
    /\ resp' = NoResp
    /\ UNCHANGED <<txt, txtAppends, first, calls>>

\* return producto (217)
Return2 ==
    /\ second.pc = "return"
    /\ second' = [second EXCEPT !.pc = "idle", !.data = NoData,
                                !.producto = NoProducto]
    /\ resp' = NoResp
    /\ UNCHANGED <<files, first, calls>>

Second ==
    \/ Start2
    \/ \E x \in Inputs : Call2(x)
    \/ Increment2
    \/ \E now \in Times : Build2(now)
    \/ GuardarTxt2
    \/ GuardarJsonl2
    \/ Return2

\* two instances of the service on the same files
SpecTwo == Init /\ [][Next \/ Second]_vars

\* ------------------------------------------------ reads during an append
\* the members of a dumped ProductoOut in the order model_dump gives them:
\* the fields of ProductoIn (37-41), then id and creado_en (47-48)
FieldOrder ==
    <<"nombre", "categoria", "precio", "stock", "descripcion", "id",
      "creado_en">>

Punct(k) == [k |-> k, name |-> "", v |-> JAbsent]
KeyTok(f) == [k |-> "key", name |-> f, v |-> JAbsent]
ValTok(v) == [k |-> "val", name |-> "", v |-> v]

\* the text json.dumps gives for a dumped record (128), token by token
JsonTokens(l) ==
    LET n == 4 * Len(FieldOrder) + 1
    IN  [i \in 1..n |->
            IF i = 1 THEN Punct("{")
            ELSE IF i = n THEN Punct("}")
            ELSE LET j == i - 2
                     f == FieldOrder[(j \div 4) + 1]
                 IN  CASE j % 4 = 0 -> KeyTok(f)
                       [] j % 4 = 1 -> Punct(":")
                       [] j % 4 = 2 -> ValTok(l[f])
                       [] OTHER -> Punct(",")]

\* what is in the file of a token whose last character is not written yet:
\* a string without its closing quote, a number with a digit less (1.5 is
\* then 1), an unfinished null or key; one-character tokens are all or
\* nothing
Truncated(tok) ==
    CASE tok.k = "val" /\ tok.v.t = "str" ->
            <<[k |-> "open", name |-> "",
               v |-> JStr(SubSeq(tok.v.s, 1, Len(tok.v.s) - 1))]>>
      [] tok.k = "val" /\ tok.v.t = "float" ->
            <<ValTok(JInt(tok.v.n \div 10))>>
      [] tok.k = "val" /\ tok.v.t = "int" /\ tok.v.n >= 10 ->
            <<ValTok(JInt(tok.v.n \div 10))>>
      [] tok.k = "val" /\ tok.v.t = "null" -> <<Punct("bad")>>
      [] tok.k = "key" -> <<Punct("bad")>>
      [] OTHER -> <<>>

\* the part of f.write(json.dumps(data) + "\n") (128) that a reader finds in
\* the file when cut tokens are written and, with mid, part of the next one
WrittenPrefix(l, cut, mid) ==
    LET toks == JsonTokens(l)
    IN  SubSeq(toks, 1, cut)
            \o (IF mid /\ cut < Len(toks) THEN Truncated(toks[cut + 1])
                ELSE <<>>)

\* WellFormed of a decoder that repairs a text that breaks off
WellFormedRepaired(toks) == Len(toks) >= 1 /\ toks[1].k = "{"

\* whether json.loads (145, 169) accepts the text as an object: braces
\* around members key : value separated by commas
WellFormed(toks) ==
    /\ Len(toks) >= 2
    /\ toks[1].k = "{"
    /\ toks[Len(toks)].k = "}"
    /\ LET inner == SubSeq(toks, 2, Len(toks) - 1)
       IN  /\ Len(inner) = 0 \/ Len(inner) % 4 = 3
           /\ \A i \in 1..Len(inner) :
                  inner[i].k = CASE i % 4 = 1 -> "key"
                                 [] i % 4 = 2 -> ":"
                                 [] i % 4 = 3 -> "val"
                                 [] OTHER -> ","

\* the value the text gives member f, absent without such a member
MemberOf(toks, f) ==
    LET at == {i \in 1..Len(toks) :
                  /\ toks[i].k = "key"
                  /\ toks[i].name = f
                  /\ i + 2 <= Len(toks)
                  /\ toks[i + 2].k \in {"val", "open"}}
    IN  IF at = {} THEN JAbsent
        ELSE toks[(CHOOSE i \in at : \A j \in at : j <= i) + 2].v

\* json.loads of a line (145, 169) given as its tokens
Loads(toks) ==
    IF WellFormed(toks)
    THEN JObject(MemberOf(toks, "id"), MemberOf(toks, "nombre"),
                 MemberOf(toks, "categoria"), MemberOf(toks, "precio"),
                 MemberOf(toks, "stock"), MemberOf(toks, "descripcion"),
                 MemberOf(toks, "creado_en"))
    ELSE NonObject("garbage")

\* productos.jsonl as a reader finds it while record p is being appended:
\* the finished lines, then what is written of p's line
LinesDuring(p, cut, mid) ==
    LET toks == WrittenPrefix(Dump(p), cut, mid)
    IN  jsonl \o (IF Len(toks) = 0 THEN <<>> ELSE <<Loads(toks)>>)

\* how much of the line the reader found: nothing, all of the JSON text (at
\* most the "\n" is missing), or a part of it
PartOf(p, cut, mid) ==
    LET toks == WrittenPrefix(Dump(p), cut, mid)
    IN  IF Len(toks) = 0 THEN "none"
        ELSE IF cut = Len(JsonTokens(Dump(p))) THEN "full"
        ELSE "mid"

MaxCut == 4 * Len(FieldOrder) + 1

\* where the text breaks off: before anything, before, inside (mid) or after
\* the value of a member, and after the closing brace; a text that breaks
\* off at another place (inside a key, after a colon or a comma) is of the
\* kind it is after the value before
CutPoints ==
    {0, MaxCut} \cup {4 * i - 1 : i \in 1..Len(FieldOrder)}
        \cup {4 * i : i \in 1..Len(FieldOrder)}

\* mid says something at a token that can be written in part
CanCut(p, cut, mid) ==
    /\ cut \in CutPoints
    /\ mid => /\ cut < MaxCut
              /\ Truncated(JsonTokens(Dump(p))[cut + 1]) # <<>>

\* listar_productos (219-224) runs in a worker thread while create call t
\* is inside its f.write to productos.jsonl (127-128)
ListarDurante(t, cut, mid) ==
    /\ up
    /\ pc[t] = "jsonl"
    /\ CanCut(producto[t], cut, mid)
    /\ LET r == _leer_todos(TRUE, LinesDuring(producto[t], cut, mid))
       IN  resp' = [op |-> "list_during", id |-> 0,
                    part |-> PartOf(producto[t], cut, mid),
                    err |-> r.err, recs |-> r.recs]
    /\ UNCHANGED <<files, env, ultimo_id, lock, up, pc, data, producto, calls,
                   returned, lost, orphaned>>

\* obtener_producto (226-235) likewise
ObtenerDurante(t, producto_id, cut, mid) ==
    /\ up
    /\ pc[t] = "jsonl"
    /\ CanCut(producto[t], cut, mid)
    /\ LET r == _leer_por_id(TRUE, LinesDuring(producto[t], cut, mid),
                             producto_id)
       IN  resp' = [op |-> "get_during", id |-> producto_id,
                    part |-> PartOf(producto[t], cut, mid),
                    err |-> r.err, recs |-> r.recs]
    /\ UNCHANGED <<files, env, ultimo_id, lock, up, pc, data, producto, calls,
                   returned, lost, orphaned>>

During ==
    \/ \E t \in Tasks, cut \in CutPoints, mid \in BOOLEAN :
           ListarDurante(t, cut, mid)
    \/ \E t \in Tasks, i \in ProbeIds, cut \in CutPoints, mid \in BOOLEAN :
           ObtenerDurante(t, i, cut, mid)

\* the service, its reads also running while a line is being written
SpecDuring == Init /\ [][Next \/ During]_vars

\* ------------------------------------------------------------------ claims
LostIds == {l.id : l \in lost}

\* ids returned by the running process, in order of return
SessionIds ==
    LET s == SelectSeq(returned, LAMBDA e : e.epoch = restarts)
    IN  [i \in 1..Len(s) |-> s[i].rec.id]

\* write failures and calls cut off since the running process started
SessionLost == {l \in lost : l.epoch = restarts}

\* C1: from an empty or absent productos.jsonl, with no restart and no
\* failed create, the i-th create to return carries id i: the ids returned
\* are 1, 2, ..., N in order, without duplicate or gap.
C1_SequentialIds ==
    (restarts = 0 /\ lost = {})
        => \A i \in 1..Len(returned) : returned[i].rec.id = i

C1_Witness ==
    /\ restarts = 0
    /\ lost = {}
    /\ Len(returned) >= 2

\* C2: with several creates in flight in one process and no failure since
\* the process started, the ids the process returned are seed+1, seed+2, ...
\* in order of return, two calls in flight never hold the same id, and an id
\* held by a call in flight is the next one of that range.
C2_ConcurrentIds ==
    SessionLost = {}
        => /\ \A i \in 1..Len(SessionIds) : SessionIds[i] = seed + i
           /\ \A t, u \in Tasks :
                  (t # u /\ HeldId(t) # 0) => HeldId(t) # HeldId(u)
           /\ \A t \in Tasks :
                  HeldId(t) # 0 => HeldId(t) = seed + Len(SessionIds) + 1

C2_Witness ==
    /\ SessionLost = {}
    /\ \E t, u \in Tasks :
           /\ pc[t] = "acquire"
           /\ pc[u] = "return"
           /\ HeldId(u) = seed + 1

\* C3: as long as every create that took an id returned its record, restarts
\* do not change the ids handed out: a restarted process starts from the
\* number K of records created before it, so its first create gets K + 1 and
\* the ids returned over all processes are 1, 2, ... in order.
C3_RestartContinues ==
    (lost = {} /\ orphaned = {})
        => /\ seed = Cardinality({i \in 1..Len(returned) :
                                     returned[i].epoch < restarts})
           /\ \A i \in 1..Len(returned) : returned[i].rec.id = i

C3_Witness ==
    /\ lost = {}
    /\ orphaned = {}
    /\ Len(returned) = 2
    /\ returned[1].epoch = 0
    /\ returned[2].epoch = 1
    /\ returned[2].rec.id = 2

\* C4: an id a create took from the counter and whose record never reached
\* productos.jsonl (the write raised, or the process died after the
\* increment) is never held by a later create, in the same process or after
\* a restart.
C4_LostIdSkipped ==
    \A t \in Tasks : HeldId(t) # 0 => HeldId(t) \notin LostIds

\* C5: an id of a record that create appended to productos.jsonl is never
\* taken by a later create, whatever became of the record's line since.
C5_PersistedIdNotReused ==
    \A t \in Tasks :
        pc[t] \in {"build", "txt", "jsonl"} => HeldId(t) \notin everPersisted

\* the largest id of the lines that hold an integer id, 0 when there is none
MaxWellFormedId(lines) ==
    LET ids == {lines[i].id.n : i \in {j \in 1..Len(lines) :
                    lines[j].kind = "obj" /\ lines[j].id.t = "int"}}
    IN  IF ids = {} THEN 0 ELSE CHOOSE m \in ids : \A k \in ids : k <= m

\* C6: whatever productos.jsonl holds, the recovery at a process start ends
\* without an error and leaves the counter at the largest well-formed id of
\* the file, 0 when there is none.
C6_RecoveryLenient ==
    [][restarts' # restarts
          => (up' /\ ultimo_id' = MaxWellFormedId(jsonl'))]_vars

\* the records create wrote into lines nobody damaged, in file order
ShadowRecs ==
    LET s == SelectSeq(shadow, LAMBDA e : e.ok)
    IN  [i \in 1..Len(s) |-> s[i].rec]

\* C7: with malformed lines anywhere in productos.jsonl, listar_productos
\* raises nothing and returns exactly the records of the other lines, in
\* file order.
C7_ListLenient ==
    resp.op = "list" => (~resp.err /\ resp.recs = ShadowRecs)

\* C8: obtener_producto never fails; for the id of a record a create
\* returned it gives exactly that record, and for an id no create wrote to
\* productos.jsonl it gives the 404.
C8_GetExact ==
    resp.op = "get"
        => /\ ~resp.err
           /\ \A i \in 1..Len(returned) :
                  returned[i].rec.id = resp.id
                      => resp.recs = <<returned[i].rec>>
           /\ resp.id \notin everPersisted => resp.recs = <<>>

C8_Witness ==
    /\ resp.op = "get"
    /\ Len(returned) = 2
    /\ resp.id = returned[2].rec.id
    /\ resp.recs = <<returned[2].rec>>

\* C9: once a create with input x returned record r, listar_productos holds
\* exactly one record with r's id, and it is r: the fields of x unchanged,
\* with the id and the creation time the create assigned.
C9_ListHasCreated ==
    resp.op = "list"
        => \A i \in 1..Len(returned) :
               LET ks == {k \in 1..Len(resp.recs) :
                              resp.recs[k].id = returned[i].rec.id}
               IN  /\ Cardinality(ks) = 1
                   /\ \A k \in ks :
                          /\ resp.recs[k] = returned[i].rec
                          /\ InputOf(resp.recs[k]) = returned[i].x
                          /\ resp.recs[k].creado_en = returned[i].rec.creado_en

C9_Witness ==
    /\ resp.op = "list"
    /\ Len(returned) = 2
    /\ returned[1].x # returned[2].x
    /\ returned[1].rec.creado_en # returned[2].rec.creado_en
    /\ Len(resp.recs) = 2

\* the columns of a row of productos.txt
Columns(row) == 1 + Cardinality({i \in 1..Len(row) : row[i] = PIPE})

HeaderRow == SubSeq(Header, 1, Len(Header) - 1)

\* C10: productos.txt read line by line is the header followed by one row
\* of seven columns per record appended, whatever the records hold.
C10_TextColumns ==
    LET rows == ReadLines(txt)
    IN  /\ Len(rows) = 1 + txtAppends
        /\ rows[1] = HeaderRow
        /\ \A i \in 2..Len(rows) : Columns(rows[i]) = 7

\* no carriage return was written to productos.txt
NoCarriageReturn == \A i \in 1..Len(txt) : txt[i] # CR

\* C10 for records whose strings hold pipes and "\n" but no "\r"
C10_TextColumnsNoCR == NoCarriageReturn => C10_TextColumns

\* the create calls inside the async with block of crear_producto (209-217)
InSequence(t) == pc[t] \in {"increment", "build", "txt", "jsonl", "return"}

\* C11: at most one create call is inside its sequence of increment, build
\* and the two appends at a time, and the call inside is the holder of the
\* lock; two such sequences never overlap.
C11_MutualExclusion ==
    /\ Cardinality({t \in Tasks : InSequence(t)}) <= 1
    /\ \A t \in Tasks : InSequence(t) => lock = t

C11_Witness ==
    \E t, u \in Tasks :
        /\ pc[t] = "jsonl"
        /\ pc[u] = "acquire"
        /\ lock = t

\* the records create wrote: those of the finished lines of productos.jsonl
\* and the record whose line a create is writing
WrittenRecs ==
    {shadow[k].rec : k \in {j \in 1..Len(shadow) : shadow[j].ok}}
        \cup {producto[t] : t \in {u \in Tasks : pc[u] = "jsonl"}}

\* C12: a list or a get that runs while a create is writing its line, and
\* finds any part of that line in productos.jsonl, returns no record made of
\* a part of it: every record returned equals in all fields the record of a
\* finished line, or the whole record being written when all of its JSON
\* text was in the file, and a read that found only a part of the line
\* returns records of finished lines only.
C12_NoPartialRecord ==
    resp.op \in {"list", "get", "list_during", "get_during"}
        => /\ \A i \in 1..Len(resp.recs) : resp.recs[i] \in WrittenRecs
           /\ resp.part = "mid"
                  => \A i \in 1..Len(resp.recs) :
                         \E k \in 1..Len(shadow) :
                             shadow[k].ok /\ shadow[k].rec = resp.recs[i]

C12_Witness ==
    /\ resp.op = "list_during"
    /\ resp.part = "mid"
    /\ Len(jsonl) = 1
    /\ resp.recs = <<shadow[1].rec>>

\* C13: a create whose append raises ends without a record returned and
\* without another attempt: the step leaves the counter, both files and the
\* list of returned records as they were. The id it took stays taken in the
\* running process: the counter is not below it, no record with it is
\* returned, and every create in flight holds a greater id.
C13_WriteErrorNoRollback ==
    /\ [](\A l \in SessionLost :
              /\ ultimo_id >= l.id
              /\ \A t \in Tasks : HeldId(t) # 0 => HeldId(t) > l.id
              /\ \A i \in 1..Len(SessionIds) : SessionIds[i] # l.id)
    /\ [][\A t \in Tasks :
              (pc[t] \in {"txt", "jsonl"} /\ pc'[t] = "idle"
                   /\ restarts' = restarts)
                  => /\ ultimo_id' = ultimo_id
                     /\ returned' = returned
                     /\ txt' = txt
                     /\ jsonl' = jsonl
                     /\ calls' = calls]_vars

C13_Witness ==
    \E l \in SessionLost, t \in Tasks :
        /\ pc[t] = "return"
        /\ HeldId(t) = l.id + 1

\* the first column of a row of productos.txt
FirstColumn(row) ==
    IF IndexOf(row, PIPE) = 0 THEN row
    ELSE SubSeq(row, 1, IndexOf(row, PIPE) - 1)

\* the ids of the rows of productos.txt, in file order: the first columns
\* that are numbers
TxtIds ==
    LET rows == SelectSeq(Tail(ReadLines(txt)),
                          LAMBDA r : AllDigits(FirstColumn(r)))
    IN  [i \in 1..Len(rows) |-> ParseNat(FirstColumn(rows[i]))]

\* the ids of the lines of productos.jsonl, in file order
JsonlIds ==
    LET ls == SelectSeq(jsonl,
                        LAMBDA l : l.kind = "obj" /\ l.id.t = "int")
    IN  [i \in 1..Len(ls) |-> ls[i].id.n]

EndsWith(s, e) ==
    Len(s) >= Len(e) /\ SubSeq(s, Len(s) - Len(e) + 1, Len(s)) = e

\* C14: a create reaches its return only through one append of its row to
\* productos.txt followed by one append of its line to productos.jsonl, and
\* a record is returned only from there: at the return both files end with
\* the record. When no create failed or was cut off and none is between its
\* two appends, the two files hold the same ids in the same order.
C14_BothLogs ==
    /\ [](/\ \A t \in Tasks :
                 pc[t] = "return"
                     => /\ EndsWith(txt, _to_text_line(producto[t]))
                        /\ Len(jsonl) > 0
                        /\ jsonl[Len(jsonl)] = Dump(producto[t])
          /\ (lost = {} /\ \A t \in Tasks : pc[t] # "jsonl")
                 => TxtIds = JsonlIds)
    /\ [][/\ \A t \in Tasks :
                 /\ (pc'[t] = "jsonl" /\ pc[t] # "jsonl")
                        => /\ pc[t] = "txt"
                           /\ txt' = txt \o _to_text_line(producto[t])
                           /\ jsonl' = jsonl
                 /\ (pc'[t] = "return" /\ pc[t] # "return")
                        => /\ pc[t] = "jsonl"
                           /\ jsonl' = Append(jsonl, Dump(producto[t]))
                           /\ txt' = txt
          /\ returned' # returned
                 => \E t \in Tasks :
                        /\ pc[t] = "return"
                        /\ Len(returned') = Len(returned) + 1
                        /\ returned'[Len(returned')].rec = producto[t]
                        /\ txt' = txt
                        /\ jsonl' = jsonl]_vars

C14_Witness ==
    /\ lost = {}
    /\ \A t \in Tasks : pc[t] = "idle"
    /\ Len(returned) = 2
    /\ TxtIds = <<1, 2>>
    /\ JsonlIds = <<1, 2>>

\* C15: the lock is held only by a create call inside its block, so every
\* end of a create, a raised write included, leaves it free; and every
\* create call waiting for the lock gets to its end, with a record or an
\* error, unless the process ends first.
C15_GateReleased ==
    /\ [](lock # 0 => InSequence(lock))
    /\ \A t \in Tasks : (pc[t] = "acquire") ~> (pc[t] = "idle")

C15_Witness ==
    /\ SessionLost # {}
    /\ returned = <<>>
    /\ \E t \in Tasks : pc[t] = "increment" /\ lock = t

IsPrefix(a, b) == Len(a) <= Len(b) /\ SubSeq(b, 1, Len(a)) = a

\* what listar_productos gives on a file
ListOf(exists, lines) == _leer_todos(exists, lines).recs

\* C16: listar_productos gives the records in the order their lines were
\* appended; no step of the service, a restart included, changes or removes
\* a line of productos.jsonl: a step that changes the file extends it, and
\* what listar_productos gives before the step is a prefix of what it gives
\* after it, so an earlier list is a prefix of every later one.
C16_ListPrefix ==
    /\ [](resp.op = "list" => resp.recs = ShadowRecs)
    /\ [][(jsonl' # jsonl \/ jsonlExists' # jsonlExists)
              => /\ IsPrefix(jsonl, jsonl')
                 /\ IsPrefix(ListOf(jsonlExists, jsonl),
                             ListOf(jsonlExists', jsonl'))]_vars

C16_Witness ==
    /\ resp.op = "list"
    /\ restarts = 1
    /\ Len(returned) = 2
    /\ returned[1].epoch = 0
    /\ returned[2].epoch = 1
    /\ resp.recs = <<returned[1].rec, returned[2].rec>>

\* the pairs of lines of productos.jsonl that create wrote with the same id
SameId ==
    {p \in (1..Len(shadow)) \X (1..Len(shadow)) :
        /\ p[1] < p[2]
        /\ shadow[p[1]].ok
        /\ shadow[p[2]].ok
        /\ shadow[p[1]].rec.id = shadow[p[2]].rec.id}

\* the records instance b appended to productos.jsonl, in file order
ByRecs(b) ==
    LET e == SelectSeq(shadow, LAMBDA x : x.ok /\ x.by = b)
    IN  [k \in 1..Len(e) |-> e[k].rec]

\* C17: each instance numbers its records from its own counter, whatever
\* the other appends: the k-th record of the second instance has the id it
\* loaded at its start plus k, and the k-th of a first instance that never
\* failed or restarted has id k. One instance alone never appends an id
\* twice; two lines with the same id come from the two instances.
C17_DuplicateAcrossInstances ==
    /\ \A p \in SameId : shadow[p[1]].by # shadow[p[2]].by
    /\ \A k \in 1..Len(ByRecs(2)) : ByRecs(2)[k].id = second.seed + k
    /\ (restarts = 0 /\ lost = {})
           => \A k \in 1..Len(ByRecs(1)) : ByRecs(1)[k].id = k

\* both instances have persisted a record with the same id
C17_Witness ==
    \E p \in SameId : {shadow[p[1]].by, shadow[p[2]].by} = {1, 2}

\* C18: in the service running alone on its files, the counter is at least
\* every id in productos.jsonl, the ids of the file increase strictly in
\* file order, and so the id the next create takes, ultimo_id + 1, is not
\* in the file.
C18_CounterBoundsLog ==
    /\ \A i \in 1..Len(JsonlIds) : JsonlIds[i] <= ultimo_id
    /\ \A i, j \in 1..Len(JsonlIds) : i < j => JsonlIds[i] < JsonlIds[j]
    /\ \A i \in 1..Len(JsonlIds) : JsonlIds[i] # ultimo_id + 1

C18_Witness ==
    /\ JsonlIds = <<1>>
    /\ ultimo_id = 1
    /\ \E t \in Tasks : pc[t] = "increment"

\* every id of productos.jsonl has a row in productos.txt
JsonlIdsHaveRows ==
    \A i \in 1..Len(JsonlIds) : \E k \in 1..Len(TxtIds) : TxtIds[k] = JsonlIds[i]

\* C19: over creates, write failures, crashes and restarts, every id of
\* productos.jsonl has a row in productos.txt and no two rows of
\* productos.txt carry the same id.
C19_TxtCoversJsonl ==
    /\ JsonlIdsHaveRows
    /\ \A k, m \in 1..Len(TxtIds) : k < m => TxtIds[k] # TxtIds[m]

\* the places of the records with this id in what listar_productos gives
ListedAt(recs, id) == {k \in 1..Len(recs) : recs[k].id = id}

\* get and list agree on the file as it is
Agree ==
    LET all == _leer_todos(jsonlExists, jsonl)
        at == ListedAt(all.recs, resp.id)
    IN  /\ resp.err = all.err
        /\ ~resp.err
               => resp.recs =
                      IF at = {} THEN <<>>
                      ELSE <<all.recs[CHOOSE k \in at : \A m \in at : k <= m]>>

\* C20: on every content of productos.jsonl, malformed lines and repeated
\* ids included, obtener_producto gives a record exactly when
\* listar_productos holds one with that id, and it is the first of them in
\* the order of the list.
C20_GetMatchesList == resp.op = "get" => Agree

\* C20 on files without an id written as a string with a fraction
C20_GetMatchesListNoFraction ==
    (resp.op = "get"
         /\ \A i \in 1..Len(jsonl) :
                jsonl[i].id.t = "str" => IndexOf(jsonl[i].id.s, DOT) = 0)
        => Agree

====
